---- MODULE Spec2Model ----
(***************************************************************************)
(* A model of the wenwin lottery SDK: the combination codec                *)
(* (src/utils/ticket.ts), the reward calculation, the tier mapping, the    *)
(* ticket history and the purchase flow (src/lottery/lottery.ts).          *)
(*                                                                         *)
(* BigNumber values are modelled as integers of unbounded width (ethers'   *)
(* BigNumber is arbitrary precision); a thrown error is a result record    *)
(* with ok = FALSE.                                                        *)
(***************************************************************************)
EXTENDS Integers, Sequences, FiniteSets, TLC

VARIABLES
  lottery,      \* the Lottery object's configuration (selectionSize, ...)
  allowance,    \* the reward token allowance of the signer for the contract
  calls,        \* the buyTickets calls in progress: position, arguments, events
  codec,        \* the last call of a codec function: its arguments and result
  rewardCall,   \* the last call of Lottery.calculateReward
  tierCall,     \* the last call of Lottery.convertArrayToWinTierMap
  history,      \* the LotteryTicketHistory object built last (or NoHistory)
  currentDraw,  \* the argument of the last getStatus call on it
  status,       \* the result of the last getStatus call on it
  rewardRead,   \* the last read of its reward: the callback's calls, the promise
  jackpotRead,  \* the last read of its isJackpotWinningTicket ("none" before)
  query,        \* the read-only call of the Lottery facade in progress (or NoQuery)
  ticketRecord, \* a ticket on chain and in the indexer, as getTickets reads it over time
  generation    \* the call of a random ticket generator in progress (or NoGeneration)

vars == <<lottery, allowance, calls, codec, rewardCall, tierCall, history, currentDraw, status,
          rewardRead, query,
    jackpotRead, ticketRecord, generation>>
nonCodecVars == <<lottery, allowance, calls, rewardCall, tierCall, history, currentDraw, status,
                  rewardRead, query,
    jackpotRead, ticketRecord, generation>>
nonTicketVars == <<lottery, allowance, calls, codec, rewardCall, tierCall, query,
    ticketRecord, generation>>
nonRewardVars == <<lottery, allowance, calls, codec, tierCall, history, currentDraw, status,
                   rewardRead, query,
    jackpotRead, ticketRecord, generation>>
nonTierVars == <<lottery, allowance, calls, codec, rewardCall, history, currentDraw, status,
                 rewardRead, query,
    jackpotRead, ticketRecord, generation>>
nonBuyVars == <<codec, rewardCall, tierCall, history, currentDraw, status, rewardRead, query,
    jackpotRead, ticketRecord, generation>>
nonQueryVars == <<allowance, calls, codec, rewardCall, tierCall, history, currentDraw, status,
                  rewardRead,
    jackpotRead, ticketRecord, generation>>
nonSnapshotVars == <<lottery, allowance, calls, codec, rewardCall, tierCall, rewardRead,
    jackpotRead, query, generation>>
nonGenerationVars == <<allowance, calls, codec, rewardCall, tierCall, history, currentDraw,
    status, rewardRead, jackpotRead, query, ticketRecord>>

(***************************************************************************)
(* Bounds of the model.                                                    *)
(***************************************************************************)
MaxNumber == 4        \* the largest number a combination may hold
MaxSelection == 4     \* the largest selectionSize / selectionMax argument
MaxTicketNumber == 3  \* the largest number on a ticket of a history
MaxDraw == 2          \* the largest draw id of a ticket (beside the examples')
MaxMinTier == 4       \* the largest lotteryMinWinningTier
MaxNetProfit == 8     \* the largest netProfit (beside the example's)
MaxFixedReward == 3   \* the largest fixedReward (beside the example's)
MaxFixedJackpot == 2  \* the largest fixedJackpot (beside the example's)
MaxTicketsSold == 2   \* the largest ticketsSold
MaxExpectedPayout == 2 \* the largest expectedPayout
MaxArrayLen == 4      \* the longest per-tier array of the indexer
MaxTierSelection == 3 \* the largest selectionSize / minWinningTier of a tier mapping
MaxTickets == 2       \* the most tickets one buyTickets call buys
MaxAllowance == 4     \* the largest allowance the signer starts with
MaxRewardAmount == 1  \* the largest amount the reward callback of a history resolves to
MaxGenSelection == 3  \* the largest selectionSize / selectionMax of a random ticket
MaxCount == 2         \* the most tickets one generateRandomTickets call makes

(***************************************************************************)
(* Results: a value, or a thrown error.                                    *)
(***************************************************************************)
Ok(v) == [ok |-> TRUE, value |-> v, error |-> "none"]
Err(e) == [ok |-> FALSE, value |-> 0, error |-> e]

(***************************************************************************)
(* Nullable values: null, or a value.                                      *)
(***************************************************************************)
NullSet == [isNull |-> TRUE, value |-> {}]
NullInt == [isNull |-> TRUE, value |-> 0]
Some(v) == [isNull |-> FALSE, value |-> v]

(***************************************************************************)
(* The values of the variables before any call.                            *)
(***************************************************************************)
NoCodecCall ==
  [op |-> "none", numbers |-> {}, selectionSize |-> 0, selectionMax |-> 0,
   ticket |-> 0, valid |-> FALSE, packed |-> Ok(0), decoded |-> {}]

NoRewardCall ==
  [op |-> "none", netProfit |-> 0, fixedReward |-> 0, fixedJackpot |-> 0,
   ticketsSold |-> 0, isJackpot |-> FALSE, expectedPayout |-> 0, result |-> Ok(0)]

EmptyMap == [tier \in {} |-> 0]

NoTierCall ==
  [op |-> "none", array |-> <<>>, selectionSize |-> 0, minWinningTier |-> 0,
   result |-> EmptyMap]

NoLottery == [selectionSize |-> 0, selectionMax |-> 0, minWinningTier |-> 0, ticketPrice |-> 0]

\* The buyTickets calls that may be in progress at once, and one not yet made.
Calls == {1, 2}
NoCall == [pc |-> "idle", ticketsForDraws |-> <<>>, packedTickets |-> <<>>,
           allowanceRead |-> NullInt, events |-> <<>>, error |-> "none"]

NoHistory ==
  [built |-> FALSE, draw |-> 0, combination |-> NullSet, matchedNumbers |-> NullSet,
   isClaimed |-> FALSE, lotteryMinWinningTier |-> 0]

\* callbackCalls: the calls of the calculateReward callback, each with its tier
\* argument and the promise it returned.
NoRewardRead == [read |-> FALSE, callbackCalls |-> <<>>, promise |-> Ok(0)]

\* What the contract's reads of a reward query resolve to.
NoReads ==
  [netProfit |-> 0, fixedReward |-> 0, fixedJackpot |-> 0, ticketsSold |-> 0,
   expectedPayout |-> 0]

\* A ticket as the indexer and the contract hold it: its draw, its combination,
\* whether it is claimed, its draw's winning combination (null until the draw is
\* finalized), and the lottery's minimal winning tier and current draw.
NoTicketRecord ==
  [draw |-> 0, combination |-> NullSet, isClaimed |-> FALSE,
   winningCombination |-> NullSet, minWinningTier |-> 0, currentDraw |-> 0]

\* size, max, numbers: the arguments and the set of the running generateRandomTicket;
\* tickets: the tickets made so far, and at the end the value returned.
NoGeneration ==
  [op |-> "none", pc |-> "idle", count |-> 0, selectionSize |-> 0, selectionMax |-> 0,
   size |-> 0, max |-> 0, numbers |-> {}, tickets |-> <<>>]

\* requests: what the call asked of the contract and the indexer, in order;
\* response: how the awaited request settled; array, reads: the data it carried;
\* result, value, error: how the call's promise settled.
NoQuery ==
  [op |-> "none", pc |-> "idle", winTier |-> 0, requests |-> <<>>, response |-> "none",
   array |-> <<>>, reads |-> NoReads, result |-> "none", value |-> 0, error |-> "none"]

(***************************************************************************)
(* BigNumber bit operations (ethers): or, and, shl on non-negative values. *)
(***************************************************************************)
ZERO == 0
ONE == 1

RECURSIVE BitOr(_, _)
BitOr(a, b) ==
  IF a = 0 THEN b
  ELSE IF b = 0 THEN a
  ELSE (IF a % 2 = 1 \/ b % 2 = 1 THEN 1 ELSE 0) + 2 * BitOr(a \div 2, b \div 2)

RECURSIVE BitAnd(_, _)
BitAnd(a, b) ==
  IF a = 0 \/ b = 0 THEN 0
  ELSE (IF a % 2 = 1 /\ b % 2 = 1 THEN 1 ELSE 0) + 2 * BitAnd(a \div 2, b \div 2)

Shl(a, n) == a * 2^n

(***************************************************************************)
(* src/utils/ticket.ts                                                     *)
(***************************************************************************)
\* Variant: the lower bound of a member is not tested.
isValidLotteryTicketNoLowerBound(numbers, selectionSize, selectionMax) ==
  /\ Cardinality(numbers) = selectionSize
  /\ \A n \in numbers : n <= selectionMax

\* Variant: selectionMax itself is refused.
isValidLotteryTicketStrictMax(numbers, selectionSize, selectionMax) ==
  /\ Cardinality(numbers) = selectionSize
  /\ \A n \in numbers : n >= 1 /\ n < selectionMax

isValidLotteryTicket(numbers, selectionSize, selectionMax) ==
  /\ Cardinality(numbers) = selectionSize
  /\ \A n \in numbers : n >= 1 /\ n <= selectionMax

\* [...numbers].reduce((ticket, n) => ticket.or(ONE.shl(n - 1)), ZERO)
RECURSIVE ReduceOr(_, _)
ReduceOr(numbers, ticket) ==
  IF numbers = {} THEN ticket
  ELSE LET n == CHOOSE x \in numbers : \A y \in numbers : x <= y
       IN  ReduceOr(numbers \ {n}, BitOr(ticket, Shl(ONE, n - 1)))

\* Variant: bit n is set for the member n.
RECURSIVE ReduceOrOffByOne(_, _)
ReduceOrOffByOne(numbers, ticket) ==
  IF numbers = {} THEN ticket
  ELSE LET n == CHOOSE x \in numbers : \A y \in numbers : x <= y
       IN  ReduceOrOffByOne(numbers \ {n}, BitOr(ticket, Shl(ONE, n)))

convertUncheckedOffByOne(numbers) ==
  IF \E n \in numbers : n < 0 THEN Err("negative-width")
  ELSE Ok(ReduceOrOffByOne(numbers, ZERO))

\* BigNumber.shl throws on a negative width, which a member below 1 gives.
convertUncheckedNumbersToLotteryTicket(numbers) ==
  IF \E n \in numbers : n - 1 < 0 THEN Err("negative-width")
  ELSE Ok(ReduceOr(numbers, ZERO))

\* Variant: the validity test is skipped.
convertNumbersUnvalidated(numbers, selectionSize, selectionMax) ==
  convertUncheckedNumbersToLotteryTicket(numbers)

convertNumbersToLotteryTicket(numbers, selectionSize, selectionMax) ==
  IF ~isValidLotteryTicket(numbers, selectionSize, selectionMax)
  THEN Err("convertNumbersToLotteryTicket: Invalid ticket")
  ELSE convertUncheckedNumbersToLotteryTicket(numbers)

\* Variant: the loop starts at bit 1.
convertTicketFromBitOne(ticket, selectionMax) ==
  {i + 1 : i \in {j \in 1 .. selectionMax : BitAnd(ticket, Shl(ONE, j)) > 0}}

\* Variant: the loop stops one bit early.
convertTicketShortLoop(ticket, selectionMax) ==
  {i + 1 : i \in {j \in 0 .. selectionMax - 2 : BitAnd(ticket, Shl(ONE, j)) > 0}}

convertLotteryTicketToNumbers(ticket, selectionMax) ==
  {i + 1 : i \in {j \in 0 .. selectionMax - 1 : BitAnd(ticket, Shl(ONE, j)) > 0}}

(***************************************************************************)
(* The inputs of the codec calls.                                          *)
(***************************************************************************)
Numbers == -1 .. MaxNumber + 1
Combinations == SUBSET Numbers
Selections == 0 .. MaxSelection
PackedTickets == 0 .. 2^(MaxNumber + 1) - 1

\* The cases of the repository's tests (test/utils/ticket.test.ts).
TestInputs ==
  {[NoCodecCall EXCEPT !.op = "pending", !.numbers = {1, 2, 3, 4, 5},
                       !.selectionSize = 5, !.selectionMax = 10, !.ticket = 31],
   [NoCodecCall EXCEPT !.op = "pending", !.numbers = {1, 2, 4, 6, 8},
                       !.selectionSize = 5, !.selectionMax = 10, !.ticket = 171],
   [NoCodecCall EXCEPT !.op = "pending", !.numbers = {5},
                       !.selectionSize = 1, !.selectionMax = 6, !.ticket = 16],
   [NoCodecCall EXCEPT !.op = "pending", !.numbers = {1, 2, 3, 4, 5, 6},
                       !.selectionSize = 5, !.selectionMax = 10],
   [NoCodecCall EXCEPT !.op = "pending", !.numbers = {0, 2, 4, 6, 8, 11},
                       !.selectionSize = 6, !.selectionMax = 10],
   [NoCodecCall EXCEPT !.op = "pending", !.numbers = {1, 2, 4, 6, 8, 11},
                       !.selectionSize = 6, !.selectionMax = 10]}

\* The arguments a caller is about to pass: a combination with a selection
\* size and maximum, or a packed ticket with a selection maximum.
CodecInputs ==
  TestInputs
  \cup
  {[NoCodecCall EXCEPT !.op = "pending", !.numbers = numbers,
                       !.selectionSize = selectionSize, !.selectionMax = selectionMax] :
     numbers \in Combinations, selectionSize \in Selections, selectionMax \in Selections}
  \cup
  {[NoCodecCall EXCEPT !.op = "pending", !.ticket = ticket, !.selectionMax = selectionMax] :
     ticket \in PackedTickets, selectionMax \in Selections}

CallIsValid ==
  /\ codec.op = "pending"
  /\ codec' = [codec EXCEPT
                !.op = "isValidLotteryTicket",
                !.valid = isValidLotteryTicket(codec.numbers, codec.selectionSize,
                                                codec.selectionMax)]
  /\ UNCHANGED nonCodecVars

CallConvertUnchecked ==
  /\ codec.op = "pending"
  /\ codec' = [codec EXCEPT
                !.op = "convertUncheckedNumbersToLotteryTicket",
                !.packed = convertUncheckedNumbersToLotteryTicket(codec.numbers)]
  /\ UNCHANGED nonCodecVars

CallConvertNumbers ==
  /\ codec.op = "pending"
  /\ codec' = [codec EXCEPT
                !.op = "convertNumbersToLotteryTicket",
                !.packed = convertNumbersToLotteryTicket(codec.numbers, codec.selectionSize,
                                                         codec.selectionMax)]
  /\ UNCHANGED nonCodecVars

CallConvertTicket ==
  /\ codec.op = "pending"
  /\ codec' = [codec EXCEPT
                !.op = "convertLotteryTicketToNumbers",
                !.decoded = convertLotteryTicketToNumbers(codec.ticket, codec.selectionMax)]
  /\ UNCHANGED nonCodecVars

(***************************************************************************)
(* src/utils/ticket.ts: generateRandomTicket, generateRandomTickets,       *)
(* getRandomInt, and Lottery.generateRandomTickets.                        *)
(*                                                                         *)
(* A call runs one loop iteration per step; Math.random() is a choice.     *)
(***************************************************************************)
\* Variant: max itself may be drawn.
getRandomIntInclusive(max) == 0 .. max

\* Math.floor(Math.random() * max) for max >= 0: one of 0 .. max - 1, and 0 when
\* max is 0.
getRandomInt(max) == IF max = 0 THEN {0} ELSE 0 .. max - 1

\* generateRandomTicket(selectionSize, selectionMax) at its entry: numbers is empty.
generateRandomTicket(running, selectionSize, selectionMax) ==
  [running EXCEPT !.pc = "ticket", !.size = selectionSize, !.max = selectionMax,
                  !.numbers = {}]

\* generateRandomTickets(count, selectionSize, selectionMax) at its entry: the
\* loop calls generateRandomTicket(selectionMax, selectionSize) while i < count.
generateRandomTickets(op, count, selectionSize, selectionMax) ==
  LET running == [NoGeneration EXCEPT !.op = op, !.count = count,
                                      !.selectionSize = selectionSize,
                                      !.selectionMax = selectionMax]
  IN  IF 0 < count
      THEN generateRandomTicket(running, selectionMax, selectionSize)
      ELSE [running EXCEPT !.pc = "returned"]

\* Variant: the lottery passes selectionSize before selectionMax.
LotteryGenerateRandomTicketsSizeFirst(count) ==
  generateRandomTickets("Lottery.generateRandomTickets", count,
                        lottery.selectionSize, lottery.selectionMax)

\* Lottery.generateRandomTickets(count)
LotteryGenerateRandomTickets(count) ==
  generateRandomTickets("Lottery.generateRandomTickets", count,
                        lottery.selectionMax, lottery.selectionSize)

GenSelections == 0 .. MaxGenSelection
Counts == 0 .. MaxCount

CallGenerateRandomTicket ==
  /\ generation.pc = "idle"
  /\ \E selectionSize \in GenSelections, selectionMax \in GenSelections :
       generation' = generateRandomTicket(
                       [NoGeneration EXCEPT !.op = "generateRandomTicket", !.count = 1,
                                            !.selectionSize = selectionSize,
                                            !.selectionMax = selectionMax],
                       selectionSize, selectionMax)
  /\ UNCHANGED lottery
  /\ UNCHANGED nonGenerationVars

CallGenerateRandomTickets ==
  /\ generation.pc = "idle"
  /\ \E count \in Counts, selectionSize \in GenSelections, selectionMax \in GenSelections :
       generation' = generateRandomTickets("generateRandomTickets", count,
                                           selectionSize, selectionMax)
  /\ UNCHANGED lottery
  /\ UNCHANGED nonGenerationVars

CallLotteryGenerateRandomTickets ==
  /\ generation.pc = "idle"
  /\ \E count \in Counts : generation' = LotteryGenerateRandomTickets(count)
  /\ UNCHANGED lottery
  /\ UNCHANGED nonGenerationVars

\* The loop's body: numbers.add(getRandomInt(selectionMax) + 1)
AddNumber ==
  /\ generation.pc = "ticket"
  /\ Cardinality(generation.numbers) < generation.size
  /\ \E random \in getRandomInt(generation.max) :
       generation' = [generation EXCEPT !.numbers = @ \cup {random + 1}]
  /\ UNCHANGED lottery
  /\ UNCHANGED nonGenerationVars

\* The loop's exit: generateRandomTicket returns numbers; generateRandomTickets
\* pushes it and goes on to its next ticket, or returns.
ReturnTicket ==
  /\ generation.pc = "ticket"
  /\ ~(Cardinality(generation.numbers) < generation.size)
  /\ LET tickets == Append(generation.tickets, generation.numbers)
     IN  generation' =
           IF generation.op # "generateRandomTicket" /\ Len(tickets) < generation.count
           THEN generateRandomTicket([generation EXCEPT !.tickets = tickets],
                                     generation.size, generation.max)
           ELSE [generation EXCEPT !.pc = "returned", !.tickets = tickets]
  /\ UNCHANGED lottery
  /\ UNCHANGED nonGenerationVars

(***************************************************************************)
(* src/lottery/lottery.ts: LotteryTicketHistory                            *)
(***************************************************************************)
DRAWS_PER_YEAR == 52

\* The constructor: matchedNumbers is the ticket's numbers that the draw's
\* winning combination has, or null when either is null.
LotteryTicketHistory(draw, combination, isClaimed, drawWinningCombination, lotteryMinWinningTier) ==
  [built |-> TRUE,
   draw |-> draw,
   combination |-> combination,
   matchedNumbers |->
     IF ~drawWinningCombination.isNull /\ ~combination.isNull
     THEN Some({number \in combination.value : number \in drawWinningCombination.value})
     ELSE NullSet,
   isClaimed |-> isClaimed,
   lotteryMinWinningTier |-> lotteryMinWinningTier]

\* get winTier(): this.matchedNumbers?.size ?? null
winTier(this) ==
  IF this.matchedNumbers.isNull THEN NullInt ELSE Some(Cardinality(this.matchedNumbers.value))

\* Variant: the win tier is compared with the lottery's minimal winning tier.
isJackpotAtMinWinningTier(this) ==
  /\ ~winTier(this).isNull
  /\ ~this.combination.isNull
  /\ winTier(this).value = this.lotteryMinWinningTier

\* get isJackpotWinningTicket()
isJackpotWinningTicket(this) ==
  /\ ~winTier(this).isNull
  /\ ~this.combination.isNull
  /\ winTier(this).value = Cardinality(this.combination.value)

\* Variant: the tier test comes before the claimed test.
getStatusClaimedLast(this, current) ==
  IF this.draw >= current \/ winTier(this).isNull THEN "active"
  ELSE IF winTier(this).value < this.lotteryMinWinningTier THEN "unclaimable"
  ELSE IF this.isClaimed THEN "claimed"
  ELSE IF this.draw + DRAWS_PER_YEAR < current THEN "expired"
  ELSE "unclaimed"

\* Variant: the expiry test comes before the claimed test.
getStatusExpiredFirst(this, current) ==
  IF this.draw >= current \/ winTier(this).isNull THEN "active"
  ELSE IF this.draw + DRAWS_PER_YEAR < current THEN "expired"
  ELSE IF this.isClaimed THEN "claimed"
  ELSE IF winTier(this).value < this.lotteryMinWinningTier THEN "unclaimable"
  ELSE "unclaimed"

\* Variant: the ticket expires at the horizon itself.
getStatusExpiresAtHorizon(this, current) ==
  IF this.draw >= current \/ winTier(this).isNull THEN "active"
  ELSE IF this.isClaimed THEN "claimed"
  ELSE IF winTier(this).value < this.lotteryMinWinningTier THEN "unclaimable"
  ELSE IF this.draw + DRAWS_PER_YEAR <= current THEN "expired"
  ELSE "unclaimed"

getStatus(this, current) ==
  IF this.draw >= current \/ winTier(this).isNull THEN "active"
  ELSE IF this.isClaimed THEN "claimed"
  ELSE IF winTier(this).value < this.lotteryMinWinningTier THEN "unclaimable"
  ELSE IF this.draw + DRAWS_PER_YEAR < current THEN "expired"
  ELSE "unclaimed"

\* Variant: the callback is asked for every known tier, zero included.
rewardAsksForTierZero(this, callbackPromise) ==
  IF ~winTier(this).isNull
  THEN [read |-> TRUE,
        callbackCalls |-> <<[tier |-> winTier(this).value, returned |-> callbackPromise]>>,
        promise |-> callbackPromise]
  ELSE [read |-> TRUE, callbackCalls |-> <<>>, promise |-> Ok(ZERO)]

\* get reward(): this.winTier ? this.calculateReward(this.winTier) : Promise.resolve(ZERO).
\* A null and a zero winTier are both falsy. callbackPromise is the promise the
\* callback returns if it is called: the getter returns that very promise.
reward(this, callbackPromise) ==
  IF ~winTier(this).isNull /\ winTier(this).value # 0
  THEN [read |-> TRUE,
        callbackCalls |-> <<[tier |-> winTier(this).value, returned |-> callbackPromise]>>,
        promise |-> callbackPromise]
  ELSE [read |-> TRUE, callbackCalls |-> <<>>, promise |-> Ok(ZERO)]

(***************************************************************************)
(* The ticket histories a caller may build, and the draws it may ask about.*)
(***************************************************************************)
TicketNumbers == 1 .. MaxTicketNumber
NullableCombinations == {NullSet} \cup {Some(c) : c \in SUBSET TicketNumbers}
Draws == 0 .. MaxDraw \cup {10}
CurrentDraws == 0 .. MaxDraw + DRAWS_PER_YEAR + 2 \cup {15, 65}
MinWinningTiers == 0 .. MaxMinTier
\* What the calculateReward callback of a history may return: a promise of an
\* amount, or a promise that rejects.
CallbackPromises == {Ok(amount) : amount \in 0 .. MaxRewardAmount} \cup {Err("callback")}

Construct ==
  /\ ~history.built
  /\ \E draw \in Draws, combination \in NullableCombinations, isClaimed \in BOOLEAN,
        drawWinningCombination \in NullableCombinations,
        lotteryMinWinningTier \in MinWinningTiers :
       history' = LotteryTicketHistory(draw, combination, isClaimed,
                                       drawWinningCombination, lotteryMinWinningTier)
  /\ UNCHANGED <<currentDraw, status, rewardRead, jackpotRead>>
  /\ UNCHANGED nonTicketVars

GetStatus ==
  /\ history.built
  /\ status = "none"
  /\ \E current \in CurrentDraws :
       /\ currentDraw' = current
       /\ status' = getStatus(history, current)
  /\ UNCHANGED <<history, rewardRead, jackpotRead>>
  /\ UNCHANGED nonTicketVars

GetReward ==
  /\ history.built
  /\ ~rewardRead.read
  /\ \E callbackPromise \in CallbackPromises :
       rewardRead' = reward(history, callbackPromise)
  /\ UNCHANGED <<history, currentDraw, status, jackpotRead>>
  /\ UNCHANGED nonTicketVars

GetIsJackpotWinningTicket ==
  /\ history.built
  /\ jackpotRead = "none"
  /\ jackpotRead' = IF isJackpotWinningTicket(history) THEN "true" ELSE "false"
  /\ UNCHANGED <<history, currentDraw, status, rewardRead>>
  /\ UNCHANGED nonTicketVars

(***************************************************************************)
(* src/lottery/lottery.ts: Lottery.getTickets and getStatus over time.     *)
(*                                                                         *)
(* One ticket is followed: draws pass, the ticket is claimed, its draw is  *)
(* finalized. After each change getTickets builds a fresh history from the *)
(* indexer's record and the caller asks it for its status at the current   *)
(* draw.                                                                   *)
(***************************************************************************)
SnapshotDraws == 0 .. MaxDraw
SnapshotCurrentDraws ==
  0 .. MaxDraw + 1 \cup DRAWS_PER_YEAR .. MaxDraw + DRAWS_PER_YEAR + 2

TicketRecords ==
  {[draw |-> draw, combination |-> combination, isClaimed |-> isClaimed,
    winningCombination |-> winningCombination, minWinningTier |-> minWinningTier,
    currentDraw |-> current] :
     draw \in SnapshotDraws, combination \in NullableCombinations, isClaimed \in BOOLEAN,
     winningCombination \in NullableCombinations, minWinningTier \in MinWinningTiers,
     current \in SnapshotCurrentDraws}

\* getTickets on the record, then getStatus(currentDraw) on the history it built.
Snapshot(record) ==
  LET built == LotteryTicketHistory(record.draw, record.combination, record.isClaimed,
                                    record.winningCombination, record.minWinningTier)
  IN  /\ history' = built
      /\ currentDraw' = record.currentDraw
      /\ status' = getStatus(built, record.currentDraw)

FirstSnapshot ==
  /\ status = "none"
  /\ Snapshot(ticketRecord)
  /\ UNCHANGED ticketRecord
  /\ UNCHANGED nonSnapshotVars

DrawsPass ==
  /\ \E later \in SnapshotCurrentDraws :
       /\ later > ticketRecord.currentDraw
       /\ ticketRecord' = [ticketRecord EXCEPT !.currentDraw = later]
       /\ Snapshot(ticketRecord')
  /\ UNCHANGED nonSnapshotVars

TicketClaimed ==
  /\ ~ticketRecord.isClaimed
  /\ ticketRecord' = [ticketRecord EXCEPT !.isClaimed = TRUE]
  /\ Snapshot(ticketRecord')
  /\ UNCHANGED nonSnapshotVars

DrawFinalized ==
  /\ ticketRecord.winningCombination.isNull
  /\ \E winning \in SUBSET TicketNumbers :
       /\ ticketRecord' = [ticketRecord EXCEPT !.winningCombination = Some(winning)]
       /\ Snapshot(ticketRecord')
  /\ UNCHANGED nonSnapshotVars

(***************************************************************************)
(* src/lottery/lottery.ts: Lottery.calculateReward                         *)
(***************************************************************************)
PERCENTAGE_BASE == 100
EXCESS_BONUS_ALLOCATION == 50
SAFETY_MARGIN == 33

\* BigNumber.div on a positive divisor: the quotient truncated toward zero.
Div(a, b) == IF a >= 0 THEN a \div b ELSE -((-a) \div b)

\* Variant: the excess pot is not clamped at zero.
calculateExcessPotUnclamped(netProfit, fixedJackpot) ==
  LET excessPotSafePercentage == PERCENTAGE_BASE - SAFETY_MARGIN
      safeNetProfit == Div(netProfit * excessPotSafePercentage, PERCENTAGE_BASE)
  IN  safeNetProfit - fixedJackpot

calculateExcessPot(netProfit, fixedJackpot) ==
  LET excessPotSafePercentage == PERCENTAGE_BASE - SAFETY_MARGIN
      safeNetProfit == Div(netProfit * excessPotSafePercentage, PERCENTAGE_BASE)
      excessPot == safeNetProfit - fixedJackpot
  IN  IF excessPot > ZERO THEN excessPot ELSE ZERO

\* Variant: the bonus is subtracted from the base multiplier.
calculateMultiplierDecreasing(excessPot, ticketsSold, expectedPayout) ==
  IF excessPot > ZERO /\ ticketsSold > ZERO
  THEN IF ticketsSold * expectedPayout = 0
       THEN Err("division-by-zero")
       ELSE Ok(PERCENTAGE_BASE
               - Div(excessPot * EXCESS_BONUS_ALLOCATION, ticketsSold * expectedPayout))
  ELSE Ok(PERCENTAGE_BASE)

\* Variant: the bonus is computed without looking at ticketsSold.
calculateMultiplierIgnoresTickets(excessPot, ticketsSold, expectedPayout) ==
  IF excessPot > ZERO
  THEN IF ticketsSold * expectedPayout = 0
       THEN Err("division-by-zero")
       ELSE Ok(PERCENTAGE_BASE
               + Div(excessPot * EXCESS_BONUS_ALLOCATION, ticketsSold * expectedPayout))
  ELSE Ok(PERCENTAGE_BASE)

\* BigNumber.div throws on a zero divisor.
calculateMultiplier(excessPot, ticketsSold, expectedPayout) ==
  IF excessPot > ZERO /\ ticketsSold > ZERO
  THEN IF ticketsSold * expectedPayout = 0
       THEN Err("division-by-zero")
       ELSE Ok(PERCENTAGE_BASE
               + Div(excessPot * EXCESS_BONUS_ALLOCATION, ticketsSold * expectedPayout))
  ELSE Ok(PERCENTAGE_BASE)

calculateReward(netProfit, fixedReward, fixedJackpot, ticketsSold, isJackpot, expectedPayout) ==
  LET excess == calculateExcessPot(netProfit, fixedJackpot)
  IN  IF isJackpot
      THEN Ok(fixedReward + Div(excess * EXCESS_BONUS_ALLOCATION, PERCENTAGE_BASE))
      ELSE LET multiplier == calculateMultiplier(excess, ticketsSold, expectedPayout)
           IN  IF ~multiplier.ok THEN multiplier
               ELSE Ok(Div(fixedReward * multiplier.value, PERCENTAGE_BASE))

\* The values the contract's reads may resolve to.
NetProfits == -2 .. MaxNetProfit \cup {1000}
FixedRewards == 0 .. MaxFixedReward \cup {200}
FixedJackpots == 0 .. MaxFixedJackpot \cup {100}
TicketsSolds == 0 .. MaxTicketsSold
ExpectedPayouts == 0 .. MaxExpectedPayout

RewardInputs ==
  {[NoRewardCall EXCEPT !.op = "pending", !.netProfit = netProfit,
                        !.fixedReward = fixedReward, !.fixedJackpot = fixedJackpot,
                        !.ticketsSold = ticketsSold, !.isJackpot = isJackpot,
                        !.expectedPayout = expectedPayout] :
     netProfit \in NetProfits, fixedReward \in FixedRewards, fixedJackpot \in FixedJackpots,
     ticketsSold \in TicketsSolds, isJackpot \in BOOLEAN, expectedPayout \in ExpectedPayouts}

CalculateReward ==
  /\ rewardCall.op = "pending"
  /\ rewardCall' = [rewardCall EXCEPT
                      !.op = "calculateReward",
                      !.result = calculateReward(rewardCall.netProfit, rewardCall.fixedReward,
                                                 rewardCall.fixedJackpot, rewardCall.ticketsSold,
                                                 rewardCall.isJackpot, rewardCall.expectedPayout)]
  /\ UNCHANGED nonRewardVars

(***************************************************************************)
(* src/lottery/lottery.ts: Lottery.convertArrayToWinTierMap                *)
(***************************************************************************)
\* The strings of the indexer's per-tier arrays, and what mapFn (Number,
\* BigNumber.from) makes of each.
TierStrings == {"0", "10", "20", "30"}
mapFn(value) ==
  CASE value = "0" -> 0
    [] value = "10" -> 10
    [] value = "20" -> 20
    [] value = "30" -> 30

\* accumulator[winTier] = value
Assign(accumulator, tier, value) ==
  [t \in DOMAIN accumulator \cup {tier} |-> IF t = tier THEN value ELSE accumulator[t]]

\* array.reduce(..., {}) from `index` on; array[index] of the code is array[index + 1] here.
\* Variant: the starting index lacks its + 1.
RECURSIVE ReduceTiersFromStart(_, _, _, _, _)
ReduceTiersFromStart(array, index, accumulator, selectionSize, minWinningTier) ==
  IF index >= Len(array) THEN accumulator
  ELSE LET startingIndex == selectionSize - Len(array)
           tier == startingIndex + index
       IN  ReduceTiersFromStart(array, index + 1,
             IF tier < minWinningTier THEN accumulator
             ELSE Assign(accumulator, tier, mapFn(array[index + 1])),
             selectionSize, minWinningTier)

RECURSIVE ReduceTiers(_, _, _, _, _)
ReduceTiers(array, index, accumulator, selectionSize, minWinningTier) ==
  IF index >= Len(array) THEN accumulator
  ELSE LET startingIndex == selectionSize - Len(array) + 1
           tier == startingIndex + index
       IN  ReduceTiers(array, index + 1,
             IF tier < minWinningTier THEN accumulator
             ELSE Assign(accumulator, tier, mapFn(array[index + 1])),
             selectionSize, minWinningTier)

convertArrayToWinTierMap(array, selectionSize, minWinningTier) ==
  ReduceTiers(array, 0, EmptyMap, selectionSize, minWinningTier)

RECURSIVE SeqsUpTo(_)
SeqsUpTo(n) ==
  IF n = 0 THEN {<<>>}
  ELSE LET shorter == SeqsUpTo(n - 1)
       IN  shorter \cup {Append(a, x) : a \in {b \in shorter : Len(b) = n - 1},
                                         x \in TierStrings}

TierArrays == SeqsUpTo(MaxArrayLen)

TierInputs ==
  {[NoTierCall EXCEPT !.op = "pending", !.array = array, !.selectionSize = selectionSize,
                      !.minWinningTier = minWinningTier] :
     array \in TierArrays, selectionSize \in 0 .. MaxTierSelection,
     minWinningTier \in 0 .. MaxTierSelection}
  \cup
  {[NoTierCall EXCEPT !.op = "pending", !.array = <<"10", "20", "30">>,
                      !.selectionSize = 5, !.minWinningTier = 3]}

ConvertArrayToWinTierMap ==
  /\ tierCall.op = "pending"
  /\ tierCall' = [tierCall EXCEPT
                    !.op = "convertArrayToWinTierMap",
                    !.result = convertArrayToWinTierMap(tierCall.array, tierCall.selectionSize,
                                                        tierCall.minWinningTier)]
  /\ UNCHANGED nonTierVars

(***************************************************************************)
(* src/lottery/lottery.ts: Lottery.buyTickets                              *)
(*                                                                         *)
(* One call runs in steps that end at its awaits: the allowance read, the  *)
(* approve transaction and its confirmation, the purchase transaction and  *)
(* its confirmation. What a call asks of its collaborators, and the hooks  *)
(* it calls, are recorded in its events, in order.                         *)
(***************************************************************************)
Event(kind) == [kind |-> kind, amount |-> 0, drawIds |-> <<>>, tickets |-> <<>>, allowance |-> 0]

\* The configurations a Lottery is constructed with.
LotteryConfigs ==
  {[selectionSize |-> 2, selectionMax |-> 3, minWinningTier |-> 1, ticketPrice |-> 2]}

\* The tickets a caller may ask for: two valid ones, one with a number out of range.
TicketsForDraw ==
  {[drawId |-> 1, ticketNumbers |-> {1, 2}],
   [drawId |-> 2, ticketNumbers |-> {2, 3}],
   [drawId |-> 1, ticketNumbers |-> {0, 1}]}

RECURSIVE TicketLists(_)
TicketLists(n) ==
  IF n = 0 THEN {<<>>}
  ELSE LET shorter == TicketLists(n - 1)
       IN  shorter \cup {Append(a, x) : a \in {b \in shorter : Len(b) = n - 1},
                                         x \in TicketsForDraw}

\* packedTickets: one promise per ticket, settled by the conversion in its
\* then-callback, which runs as soon as the synchronous part of the call ends.
packedTickets(ticketsForDraws) ==
  [i \in 1 .. Len(ticketsForDraws) |->
     convertNumbersToLotteryTicket(ticketsForDraws[i].ticketNumbers,
                                   lottery.selectionSize, lottery.selectionMax)]

drawIds(ticketsForDraws) == [i \in 1 .. Len(ticketsForDraws) |-> ticketsForDraws[i].drawId]

\* The first part of a call, to its first await: the promises of the draw ids
\* and packed tickets are made and the allowance read is issued.
BuyTickets(c) ==
  /\ calls[c].pc = "idle"
  /\ \E ticketsForDraws \in TicketLists(MaxTickets) \ {<<>>} :
       calls' = [calls EXCEPT ![c] =
                   [pc |-> "allowance",
                    ticketsForDraws |-> ticketsForDraws,
                    packedTickets |-> packedTickets(ticketsForDraws),
                    allowanceRead |-> NullInt,
                    events |-> <<Event("allowance")>>,
                    error |-> "none"]]
  /\ UNCHANGED <<lottery, allowance>>
  /\ UNCHANGED nonBuyVars

\* onTransactionStart?.() and contract.buyTickets(drawIds, packedTickets, ...):
\* the contract call awaits its arguments, and a rejected packed ticket rejects
\* it before any transaction is made.
SubmitPurchase(call, before, currentAllowance) ==
  LET started == before \o <<Event("onTransactionStart")>>
      failed == {i \in DOMAIN call.packedTickets : ~call.packedTickets[i].ok}
  IN  IF failed # {}
      THEN [call EXCEPT !.pc = "rejected", !.events = started,
                        !.error = call.packedTickets[CHOOSE i \in failed :
                                                       \A j \in failed : i <= j].error]
      ELSE [call EXCEPT
              !.pc = "purchase",
              !.events = started \o
                <<[Event("purchase") EXCEPT
                     !.drawIds = drawIds(call.ticketsForDraws),
                     !.tickets = [i \in DOMAIN call.packedTickets |->
                                    call.packedTickets[i].value],
                     !.allowance = currentAllowance]>>]

\* Variant: an allowance equal to the total price is approved again.
AllowanceReadApprovesAtPrice(c) ==
  LET call == [calls[c] EXCEPT !.allowanceRead = Some(allowance)]
      totalTicketPrice == lottery.ticketPrice * Len(call.ticketsForDraws)
  IN  /\ call.pc = "allowance"
      /\ calls' = [calls EXCEPT ![c] =
           IF allowance <= totalTicketPrice
           THEN [call EXCEPT
                   !.pc = "approve",
                   !.events = @ \o <<Event("onApproveStart"),
                                     [Event("approve") EXCEPT
                                        !.amount = lottery.ticketPrice * Len(call.packedTickets)]>>]
           ELSE SubmitPurchase(call, call.events, allowance)]
      /\ UNCHANGED <<lottery, allowance>>
      /\ UNCHANGED nonBuyVars

\* The allowance read returns: an approve transaction for the total price when
\* the allowance is below it, the purchase otherwise.
AllowanceRead(c) ==
  LET call == [calls[c] EXCEPT !.allowanceRead = Some(allowance)]
      totalTicketPrice == lottery.ticketPrice * Len(call.ticketsForDraws)
  IN  /\ call.pc = "allowance"
      /\ calls' = [calls EXCEPT ![c] =
           IF allowance < totalTicketPrice
           THEN [call EXCEPT
                   !.pc = "approve",
                   !.events = @ \o <<Event("onApproveStart"),
                                     [Event("approve") EXCEPT
                                        !.amount = lottery.ticketPrice * Len(call.packedTickets)]>>]
           ELSE SubmitPurchase(call, call.events, allowance)]
      /\ UNCHANGED <<lottery, allowance>>
      /\ UNCHANGED nonBuyVars

\* rewardToken.approve resolves: the transaction is sent; the call awaits wait().
ApproveSent(c) ==
  /\ calls[c].pc = "approve"
  /\ calls' = [calls EXCEPT ![c].pc = "approveWait"]
  /\ UNCHANGED <<lottery, allowance>>
  /\ UNCHANGED nonBuyVars

\* approveTx.wait() resolves: the approve is mined and sets the allowance.
ApproveConfirmed(c) ==
  LET call == calls[c]
      amount == call.events[Len(call.events)].amount
  IN  /\ call.pc = "approveWait"
      /\ allowance' = amount
      /\ calls' = [calls EXCEPT ![c] =
           SubmitPurchase(call, call.events \o <<Event("approveConfirmed"),
                                                 Event("onApproveSuccess")>>,
                          amount)]
      /\ UNCHANGED lottery
      /\ UNCHANGED nonBuyVars

\* contract.buyTickets resolves: the transaction is sent; the call awaits wait().
PurchaseSent(c) ==
  /\ calls[c].pc = "purchase"
  /\ calls' = [calls EXCEPT ![c].pc = "purchaseWait"]
  /\ UNCHANGED <<lottery, allowance>>
  /\ UNCHANGED nonBuyVars

\* Variant: onTransactionSuccess fires before the purchase is confirmed.
PurchaseConfirmedHookFirst(c) ==
  LET call == calls[c]
      cost == lottery.ticketPrice * Len(call.ticketsForDraws)
  IN  /\ call.pc = "purchaseWait"
      /\ allowance >= cost
      /\ allowance' = allowance - cost
      /\ calls' = [calls EXCEPT ![c] =
           [call EXCEPT !.pc = "resolved",
                        !.events = @ \o <<Event("onTransactionSuccess"),
                                          Event("purchaseConfirmed")>>]]
      /\ UNCHANGED lottery
      /\ UNCHANGED nonBuyVars

\* buyTicketsTx.wait() resolves: the purchase is mined and spends the allowance.
PurchaseConfirmed(c) ==
  LET call == calls[c]
      cost == lottery.ticketPrice * Len(call.ticketsForDraws)
  IN  /\ call.pc = "purchaseWait"
      /\ allowance >= cost
      /\ allowance' = allowance - cost
      /\ calls' = [calls EXCEPT ![c] =
           [call EXCEPT !.pc = "resolved",
                        !.events = @ \o <<Event("purchaseConfirmed"),
                                          Event("onTransactionSuccess")>>]]
      /\ UNCHANGED lottery
      /\ UNCHANGED nonBuyVars

\* An awaited collaborator call rejects (the network, a reverted transaction):
\* the catch block rejects the call with that error.
CollaboratorFails(c) ==
  /\ calls[c].pc \in {"allowance", "approve", "approveWait", "purchase", "purchaseWait"}
  /\ calls' = [calls EXCEPT ![c].pc = "rejected", ![c].error = "collaborator"]
  /\ UNCHANGED <<lottery, allowance>>
  /\ UNCHANGED nonBuyVars

(***************************************************************************)
(* src/lottery/lottery.ts: the read-only operations of Lottery, and        *)
(* claimWinningTickets.                                                    *)
(*                                                                         *)
(* A call runs to its await of a collaborator (the contract or the         *)
(* indexer), the awaited promise settles, and the call goes on from the    *)
(* await to its end.                                                       *)
(***************************************************************************)
\* The call's part up to the await: the requests are issued.
Await(op, tier, requests) ==
  [NoQuery EXCEPT !.op = op, !.pc = "waiting", !.winTier = tier, !.requests = requests]

\* A call that throws before any await: the catch block rejects it.
Reject(op, tier, error) ==
  [NoQuery EXCEPT !.op = op, !.pc = "rejected", !.winTier = tier,
                  !.result = "error", !.error = error]

\* The win tiers a caller may ask about.
WinTiers == -1 .. MaxTierSelection + 1

GetCurrentDraw ==
  /\ query.pc = "idle"
  /\ query' = Await("getCurrentDraw", 0, <<"contract.currentDraw">>)
  /\ UNCHANGED lottery
  /\ UNCHANGED nonQueryVars

GetDrawInfos ==
  /\ query.pc = "idle"
  /\ query' = Await("getDrawInfos", 0, <<"indexer.getDrawInfos">>)
  /\ UNCHANGED lottery
  /\ UNCHANGED nonQueryVars

\* getWinAmount up to its await: the win tier is checked first.
getWinAmount(op, resolvedWinTier) ==
  IF resolvedWinTier < lottery.minWinningTier \/ resolvedWinTier > lottery.selectionSize
  THEN Reject(op, resolvedWinTier, "Win tier must be between")
  ELSE Await(op, resolvedWinTier, <<"indexer.getWinAmount">>)

GetWinAmount ==
  /\ query.pc = "idle"
  /\ \E tier \in WinTiers : query' = getWinAmount("getWinAmount", tier)
  /\ UNCHANGED lottery
  /\ UNCHANGED nonQueryVars

GetWinningTicket ==
  /\ query.pc = "idle"
  /\ query' = Await("getWinningTicket", 0, <<"indexer.getWinningTicket">>)
  /\ UNCHANGED lottery
  /\ UNCHANGED nonQueryVars

GetClaimableAmountAndWinTier ==
  /\ query.pc = "idle"
  /\ query' = Await("getClaimableAmountAndWinTier", 0, <<"contract.claimable">>)
  /\ UNCHANGED lottery
  /\ UNCHANGED nonQueryVars

ClaimWinningTickets ==
  /\ query.pc = "idle"
  /\ query' = Await("claimWinningTickets", 0, <<"contract.claimWinningTickets">>)
  /\ UNCHANGED lottery
  /\ UNCHANGED nonQueryVars

GetTickets ==
  /\ query.pc = "idle"
  /\ query' = Await("getTickets", 0, <<"indexer.getTickets">>)
  /\ UNCHANGED lottery
  /\ UNCHANGED nonQueryVars

GetPlayerStats ==
  /\ query.pc = "idle"
  /\ query' = Await("getPlayerStats", 0, <<"indexer.getPlayerStats">>)
  /\ UNCHANGED lottery
  /\ UNCHANGED nonQueryVars

GetNumberOfWinnersPerTier ==
  /\ query.pc = "idle"
  /\ query' = Await("getNumberOfWinnersPerTier", 0, <<"indexer.getNumberOfWinnersPerTier">>)
  /\ UNCHANGED lottery
  /\ UNCHANGED nonQueryVars

\* getJackpotSize(drawId) is getWinAmount(drawId, this.selectionSize).
GetJackpotSize ==
  /\ query.pc = "idle"
  /\ query' = getWinAmount("getJackpotSize", lottery.selectionSize)
  /\ UNCHANGED lottery
  /\ UNCHANGED nonQueryVars

GetNumberOfPlayers ==
  /\ query.pc = "idle"
  /\ query' = Await("getNumberOfPlayers", 0, <<"indexer.getNumberOfPlayers">>)
  /\ UNCHANGED lottery
  /\ UNCHANGED nonQueryVars

GetSoldTickets ==
  /\ query.pc = "idle"
  /\ query' = Await("getSoldTickets", 0, <<"indexer.getSoldTickets">>)
  /\ UNCHANGED lottery
  /\ UNCHANGED nonQueryVars

\* getDrawRewardSize: the five reads are issued as the arguments of
\* calculateReward, which then awaits them one after the other.
GetDrawRewardSize ==
  /\ query.pc = "idle"
  /\ \E tier \in WinTiers :
       query' = Await("getDrawRewardSize", tier,
                      <<"contract.currentNetProfit", "contract.fixedReward",
                        "contract.fixedReward", "contract.ticketsSold",
                        "contract.expectedPayout">>)
  /\ UNCHANGED lottery
  /\ UNCHANGED nonQueryVars

\* How the indexer may answer each operation: the draw (or player) is unknown,
\* the draw is known but the field is still null, the list is null or empty, or
\* there is data.
Responses(op) ==
  CASE op \in {"getWinAmount", "getJackpotSize", "getWinningTicket",
               "getNumberOfWinnersPerTier"} -> {"noDraw", "noField", "data"}
    [] op \in {"getNumberOfPlayers", "getSoldTickets"} -> {"noDraw", "data"}
    [] op = "getTickets" -> {"null", "empty", "data"}
    [] op = "getDrawInfos" -> {"empty", "data"}
    [] op = "getPlayerStats" -> {"noPlayer", "data"}
    [] OTHER -> {"data"}

\* The per-tier arrays and the contract reads an answer may carry.
PrizeArrays == {<<>>, <<"10">>, <<"10", "20", "30">>}
ContractReads ==
  {[netProfit |-> 1000, fixedReward |-> 200, fixedJackpot |-> 100, ticketsSold |-> 2,
    expectedPayout |-> 1],
   [netProfit |-> 8, fixedReward |-> 3, fixedJackpot |-> 0, ticketsSold |-> 1,
    expectedPayout |-> 0]}

\* The awaited request settles: it fails, or it answers.
CollaboratorSettles ==
  /\ query.pc = "waiting"
  /\ \/ query' = [query EXCEPT !.pc = "settled", !.response = "failure"]
     \/ \E response \in Responses(query.op) :
          \E array \in IF response = "data" /\ query.op \in {"getWinAmount", "getJackpotSize"}
                        THEN PrizeArrays ELSE {<<>>} :
            \E reads \in IF query.op = "getDrawRewardSize" THEN ContractReads ELSE {NoReads} :
              query' = [query EXCEPT !.pc = "settled", !.response = response,
                                     !.array = array, !.reads = reads]
  /\ UNCHANGED lottery
  /\ UNCHANGED nonQueryVars

Resolve(q, result, value) == [q EXCEPT !.pc = "resolved", !.result = result, !.value = value]
Rejected(q, error) == [q EXCEPT !.pc = "rejected", !.result = "error", !.error = error]

\* Variant: a failed request is answered with null.
ContinuationSwallowsFailure(q) ==
  IF q.response = "failure" THEN Resolve(q, "null", 0)
  ELSE Resolve(q, "object", 0)

\* The call from its await to its end.
Continuation(q) ==
  IF q.response = "failure" THEN Rejected(q, "collaborator")
  ELSE CASE q.op \in {"getWinAmount", "getJackpotSize"} ->
              IF q.response # "data" THEN Resolve(q, "null", 0)
              ELSE LET prizes == convertArrayToWinTierMap(q.array, lottery.selectionSize,
                                                          lottery.minWinningTier)
                   IN  IF q.winTier \in DOMAIN prizes
                       THEN Resolve(q, "number", prizes[q.winTier])
                       ELSE Resolve(q, "null", 0)
         [] q.op = "getWinningTicket" ->
              IF q.response # "data" THEN Resolve(q, "null", 0) ELSE Resolve(q, "set", 0)
         [] q.op = "getNumberOfWinnersPerTier" ->
              IF q.response = "noField" THEN Resolve(q, "null", 0)
              ELSE IF q.response = "noDraw" THEN Rejected(q, "TypeError")
              ELSE Resolve(q, "map", 0)
         [] q.op \in {"getNumberOfPlayers", "getSoldTickets"} ->
              IF q.response = "noDraw" THEN Resolve(q, "null", 0) ELSE Resolve(q, "number", 5)
         [] q.op = "getTickets" ->
              IF q.response \in {"null", "empty"} THEN Resolve(q, "emptyList", 0)
              ELSE Resolve(q, "list", 0)
         [] q.op = "getDrawInfos" ->
              IF q.response = "empty" THEN Resolve(q, "emptyList", 0) ELSE Resolve(q, "list", 0)
         [] q.op = "getPlayerStats" ->
              IF q.response = "noPlayer" THEN Rejected(q, "TypeError")
              ELSE Resolve(q, "object", 0)
         [] q.op = "getDrawRewardSize" ->
              LET size == calculateReward(q.reads.netProfit, q.reads.fixedReward,
                                          q.reads.fixedJackpot, q.reads.ticketsSold,
                                          q.winTier = lottery.selectionSize,
                                          q.reads.expectedPayout)
              IN  IF size.ok THEN Resolve(q, "number", size.value)
                  ELSE Rejected(q, size.error)
         [] q.op = "getCurrentDraw" -> Resolve(q, "number", 5)
         [] q.op = "claimWinningTickets" -> Resolve(q, "undefined", 0)
         [] OTHER -> Resolve(q, "object", 0)

Resume ==
  /\ query.pc = "settled"
  /\ query' = Continuation(query)
  /\ UNCHANGED lottery
  /\ UNCHANGED nonQueryVars

\* The configurations of the lotteries that are asked: 1 <= minWinningTier <=
\* selectionSize < selectionMax.
QueryConfigs ==
  UNION {{[selectionSize |-> selectionSize, selectionMax |-> selectionSize + 1,
           minWinningTier |-> minWinningTier, ticketPrice |-> 2] :
            minWinningTier \in 1 .. selectionSize} :
         selectionSize \in 1 .. MaxTierSelection}

(***************************************************************************)
(* Each component before any call.                                         *)
(***************************************************************************)
BuyIdle == lottery = NoLottery /\ allowance = 0 /\ calls = [c \in Calls |-> NoCall]
CodecIdle == codec = NoCodecCall
RewardIdle == rewardCall = NoRewardCall
TierIdle == tierCall = NoTierCall
TicketIdle ==
  /\ history = NoHistory /\ currentDraw = 0 /\ status = "none"
  /\ rewardRead = NoRewardRead /\ jackpotRead = "none"
QueryIdle == query = NoQuery
SnapshotIdle == ticketRecord = NoTicketRecord
GenerationIdle == generation = NoGeneration

(***************************************************************************)
(* The codec specification.                                                *)
(***************************************************************************)
InitCodec ==
  BuyIdle /\ codec \in CodecInputs /\ RewardIdle /\ TierIdle /\ TicketIdle /\ QueryIdle
  /\ SnapshotIdle /\ GenerationIdle

NextCodec ==
  \/ CallIsValid
  \/ CallConvertUnchecked
  \/ CallConvertNumbers
  \/ CallConvertTicket

SpecCodec == InitCodec /\ [][NextCodec]_vars

(***************************************************************************)
(* The ticket history specification: an object is built, then asked for    *)
(* its status.                                                             *)
(***************************************************************************)
InitTicket == BuyIdle /\ CodecIdle /\ RewardIdle /\ TierIdle /\ TicketIdle /\ QueryIdle
  /\ SnapshotIdle /\ GenerationIdle

NextTicket ==
  \/ Construct
  \/ GetStatus
  \/ GetReward
  \/ GetIsJackpotWinningTicket

SpecTicket == InitTicket /\ [][NextTicket]_vars

(***************************************************************************)
(* The snapshot specification: the statuses read of one ticket over time.  *)
(***************************************************************************)
InitSnapshot ==
  /\ BuyIdle /\ CodecIdle /\ RewardIdle /\ TierIdle /\ TicketIdle /\ QueryIdle
  /\ ticketRecord \in TicketRecords
  /\ GenerationIdle

NextSnapshot ==
  \/ FirstSnapshot
  \/ DrawsPass
  \/ TicketClaimed
  \/ DrawFinalized

SpecSnapshot == InitSnapshot /\ [][NextSnapshot]_vars

(***************************************************************************)
(* The generation specification: one call of a random ticket generator.    *)
(* Math.random() is fair: a loop that can draw a number it does not have   *)
(* yet eventually draws one.                                               *)
(***************************************************************************)
InitGeneration ==
  /\ lottery \in QueryConfigs
  /\ allowance = 0
  /\ calls = [c \in Calls |-> NoCall]
  /\ CodecIdle /\ RewardIdle /\ TierIdle /\ TicketIdle /\ QueryIdle
  /\ SnapshotIdle /\ GenerationIdle

NextGeneration ==
  \/ CallGenerateRandomTicket
  \/ CallGenerateRandomTickets
  \/ CallLotteryGenerateRandomTickets
  \/ AddNumber
  \/ ReturnTicket

SpecGeneration ==
  InitGeneration /\ [][NextGeneration]_vars /\ WF_vars(AddNumber) /\ WF_vars(ReturnTicket)

(***************************************************************************)
(* The reward specification: calculateReward applied to the contract's     *)
(* reads.                                                                  *)
(***************************************************************************)
InitReward ==
  BuyIdle /\ CodecIdle /\ rewardCall \in RewardInputs /\ TierIdle /\ TicketIdle /\ QueryIdle
  /\ SnapshotIdle /\ GenerationIdle

NextReward == CalculateReward

SpecReward == InitReward /\ [][NextReward]_vars

(***************************************************************************)
(* The tier mapping specification: convertArrayToWinTierMap applied to a   *)
(* per-tier array of the indexer.                                          *)
(***************************************************************************)
InitTier ==
  BuyIdle /\ CodecIdle /\ RewardIdle /\ tierCall \in TierInputs /\ TicketIdle /\ QueryIdle
  /\ SnapshotIdle /\ GenerationIdle

NextTier == ConvertArrayToWinTierMap

SpecTier == InitTier /\ [][NextTier]_vars

(***************************************************************************)
(* The purchase specification: buyTickets calls of one signer, which       *)
(* interleave at their awaits.                                             *)
(***************************************************************************)
InitBuy ==
  /\ lottery \in LotteryConfigs
  /\ allowance \in 0 .. MaxAllowance
  /\ calls = [c \in Calls |-> NoCall]
  /\ CodecIdle /\ RewardIdle /\ TierIdle /\ TicketIdle /\ QueryIdle
  /\ SnapshotIdle /\ GenerationIdle

NextBuy ==
  \E c \in Calls :
    \/ BuyTickets(c)
    \/ AllowanceRead(c)
    \/ ApproveSent(c)
    \/ ApproveConfirmed(c)
    \/ PurchaseSent(c)
    \/ PurchaseConfirmed(c)
    \/ CollaboratorFails(c)

SpecBuy == InitBuy /\ [][NextBuy]_vars

(***************************************************************************)
(* The query specification: one read-only call of a Lottery.               *)
(***************************************************************************)
InitQuery ==
  /\ lottery \in QueryConfigs
  /\ allowance = 0
  /\ calls = [c \in Calls |-> NoCall]
  /\ CodecIdle /\ RewardIdle /\ TierIdle /\ TicketIdle /\ QueryIdle
  /\ SnapshotIdle /\ GenerationIdle

NextQuery ==
  \/ GetCurrentDraw
  \/ GetDrawInfos
  \/ GetWinAmount
  \/ GetWinningTicket
  \/ GetClaimableAmountAndWinTier
  \/ ClaimWinningTickets
  \/ GetTickets
  \/ GetPlayerStats
  \/ GetNumberOfWinnersPerTier
  \/ GetJackpotSize
  \/ GetNumberOfPlayers
  \/ GetSoldTickets
  \/ GetDrawRewardSize
  \/ CollaboratorSettles
  \/ Resume

SpecQuery == InitQuery /\ [][NextQuery]_vars

(***************************************************************************)
(* The facade specification: a Lottery on which either buyTickets calls    *)
(* or one other call are made.                                             *)
(***************************************************************************)
InitFacade == InitBuy

NoBuyCall == \A c \in Calls : calls[c].pc = "idle"

NextFacade ==
  \/ \E c \in Calls :
       \/ QueryIdle /\ BuyTickets(c)
       \/ AllowanceRead(c)
       \/ ApproveSent(c)
       \/ ApproveConfirmed(c)
       \/ PurchaseSent(c)
       \/ PurchaseConfirmed(c)
       \/ CollaboratorFails(c)
  \/ NoBuyCall /\ GetCurrentDraw
  \/ NoBuyCall /\ GetDrawInfos
  \/ NoBuyCall /\ GetWinAmount
  \/ NoBuyCall /\ GetWinningTicket
  \/ NoBuyCall /\ GetClaimableAmountAndWinTier
  \/ NoBuyCall /\ ClaimWinningTickets
  \/ NoBuyCall /\ GetTickets
  \/ NoBuyCall /\ GetPlayerStats
  \/ NoBuyCall /\ GetNumberOfWinnersPerTier
  \/ NoBuyCall /\ GetJackpotSize
  \/ NoBuyCall /\ GetNumberOfPlayers
  \/ NoBuyCall /\ GetSoldTickets
  \/ NoBuyCall /\ GetDrawRewardSize
  \/ CollaboratorSettles
  \/ Resume

SpecFacade == InitFacade /\ [][NextFacade]_vars

(***************************************************************************)
(* Claims about the codec, checked under SpecCodec.                        *)
(***************************************************************************)
\* What the specification calls bit i of a packed ticket, and a valid combination.
BitIsSet(packed, i) == (packed \div 2^i) % 2 = 1
SetBits(packed) == {i \in 0 .. 2 * MaxNumber + 8 : BitIsSet(packed, i)}
ValidCombination(c, selectionSize, selectionMax) ==
  Cardinality(c) = selectionSize /\ c \subseteq 1 .. selectionMax

\* C3: round trip: for every selectionSize/selectionMax and every combination c
\* valid for them, decoding the encoding of c gives c back.
C3_RoundTrip ==
  (/\ codec.op = "convertNumbersToLotteryTicket"
   /\ ValidCombination(codec.numbers, codec.selectionSize, codec.selectionMax))
  => /\ codec.packed.ok
     /\ convertLotteryTicketToNumbers(codec.packed.value, codec.selectionMax) = codec.numbers

C3_Witness ==
  /\ codec.op = "convertNumbersToLotteryTicket"
  /\ codec.numbers = {2, 4}
  /\ codec.selectionSize = 2
  /\ codec.selectionMax = 4
  /\ codec.packed = Ok(10)

\* C4: reverse round trip: for every packed value p with no bit at a position
\* >= selectionMax, encoding the decoding of p, with selectionSize the number of
\* set bits of p, succeeds and gives p back.
C4_ReverseRoundTrip ==
  (/\ codec.op = "convertLotteryTicketToNumbers"
   /\ codec.ticket < 2^codec.selectionMax)
  => convertNumbersToLotteryTicket(codec.decoded, Cardinality(SetBits(codec.ticket)),
                                   codec.selectionMax) = Ok(codec.ticket)

C4_Witness ==
  /\ codec.op = "convertLotteryTicketToNumbers"
  /\ codec.ticket = 13
  /\ codec.selectionMax = 4
  /\ codec.decoded = {1, 3, 4}

\* C5: isValidLotteryTicket is true iff the combination has exactly
\* selectionSize members and every member lies in 1..selectionMax; a wrong
\* cardinality, a member < 1 or a member > selectionMax make it false.
C5_ValidIff ==
  codec.op = "isValidLotteryTicket"
  => /\ codec.valid <=> ValidCombination(codec.numbers, codec.selectionSize, codec.selectionMax)
     /\ Cardinality(codec.numbers) # codec.selectionSize => ~codec.valid
     /\ (\E n \in codec.numbers : n < 1) => ~codec.valid
     /\ (\E n \in codec.numbers : n > codec.selectionMax) => ~codec.valid

C5_Witness ==
  /\ codec.op = "isValidLotteryTicket"
  /\ codec.numbers = {0, 1}
  /\ codec.selectionSize = 2
  /\ codec.selectionMax = 3
  /\ ~codec.valid

\* C6: convertNumbersToLotteryTicket throws the invalid-ticket error exactly when
\* isValidLotteryTicket is false of its arguments, and otherwise returns what
\* convertUncheckedNumbersToLotteryTicket returns.
C6_EncodeChecks ==
  codec.op = "convertNumbersToLotteryTicket"
  => IF isValidLotteryTicket(codec.numbers, codec.selectionSize, codec.selectionMax)
     THEN /\ codec.packed.ok
          /\ codec.packed = convertUncheckedNumbersToLotteryTicket(codec.numbers)
     ELSE /\ ~codec.packed.ok
          /\ codec.packed.error = "convertNumbersToLotteryTicket: Invalid ticket"

C6_Witness ==
  /\ codec.op = "convertNumbersToLotteryTicket"
  /\ codec.numbers = {1, 2, 3}
  /\ codec.selectionSize = 2
  /\ codec.selectionMax = 4
  /\ ~codec.packed.ok

\* C7: convertUncheckedNumbersToLotteryTicket validates nothing: for every
\* combination of numbers >= 1, of any cardinality (empty and partial ones
\* included), it returns the integer whose bit n-1 is set exactly for the members
\* n; {1,2,3,4,5} gives 0x1f and {1,2,4,6,8} gives 0xab.
C7_UncheckedBits ==
  (/\ codec.op = "convertUncheckedNumbersToLotteryTicket"
   /\ \A n \in codec.numbers : n >= 1)
  => /\ codec.packed.ok
     /\ SetBits(codec.packed.value) = {n - 1 : n \in codec.numbers}
     /\ codec.packed.value < 2^(2 * MaxNumber + 9)
     /\ codec.numbers = {1, 2, 3, 4, 5} => codec.packed.value = 31
     /\ codec.numbers = {1, 2, 4, 6, 8} => codec.packed.value = 171

C7_Witness ==
  /\ codec.op = "convertUncheckedNumbersToLotteryTicket"
  /\ codec.numbers = {1, 2, 4, 6, 8}
  /\ codec.packed = Ok(171)

\* C8: convertLotteryTicketToNumbers returns exactly {i+1 : 0 <= i < selectionMax
\* and bit i of the ticket is set}, ignoring the bits from selectionMax on, and
\* undoes convertUncheckedNumbersToLotteryTicket on every combination within
\* 1..selectionMax, whatever its cardinality.
C8_DecodeBits ==
  /\ codec.op = "convertLotteryTicketToNumbers"
     => codec.decoded = {i + 1 : i \in {b \in SetBits(codec.ticket) : b < codec.selectionMax}}
  /\ (/\ codec.op = "convertUncheckedNumbersToLotteryTicket"
      /\ codec.numbers \subseteq 1 .. codec.selectionMax)
     => /\ codec.packed.ok
        /\ convertLotteryTicketToNumbers(codec.packed.value, codec.selectionMax) = codec.numbers

C8_Witness ==
  /\ codec.op = "convertLotteryTicketToNumbers"
  /\ codec.ticket = 27
  /\ codec.selectionMax = 3
  /\ codec.decoded = {1, 2}


(***************************************************************************)
(* Claims about the ticket history, checked under SpecTicket.              *)
(***************************************************************************)
\* C1: getStatus returns exactly one of the five statuses by the ordered rule,
\* first match wins: active if draw >= currentDraw or the win tier is unknown;
\* else claimed if isClaimed; else unclaimable if winTier < minWinningTier; else
\* expired if draw + 52 < currentDraw; else unclaimed.
C1_StatusRule ==
  status # "none" =>
    LET unknown == history.matchedNumbers.isNull
        tier == Cardinality(history.matchedNumbers.value)
        isActive == history.draw >= currentDraw \/ unknown
        isClaimed == ~isActive /\ history.isClaimed
        isUnclaimable == ~isActive /\ ~isClaimed /\ tier < history.lotteryMinWinningTier
        isExpired == /\ ~isActive /\ ~isClaimed /\ ~isUnclaimable
                     /\ history.draw + 52 < currentDraw
    IN  /\ status \in {"active", "claimed", "unclaimable", "expired", "unclaimed"}
        /\ status = "active" <=> isActive
        /\ status = "claimed" <=> isClaimed
        /\ status = "unclaimable" <=> isUnclaimable
        /\ status = "expired" <=> isExpired
        /\ status = "unclaimed" <=> ~isActive /\ ~isClaimed /\ ~isUnclaimable /\ ~isExpired
        /\ (/\ history.draw = 10 /\ currentDraw = 15 /\ ~history.isClaimed
            /\ ~unknown /\ tier = 2 /\ history.lotteryMinWinningTier = 3)
           => status = "unclaimable"

C1_Witness ==
  /\ status = "unclaimable"
  /\ history.draw = 10
  /\ currentDraw = 15
  /\ ~history.isClaimed
  /\ history.matchedNumbers = Some({1, 3})
  /\ history.lotteryMinWinningTier = 3

\* C19: an unclaimed winning ticket of a past draw expires only after 52 draws:
\* it reads "expired" when currentDraw - draw > 52 and "unclaimed" when
\* currentDraw - draw <= 52, so at draw + 52 it can still be claimed; the ticket
\* of draw 10 is expired at currentDraw 65.
C19_ExpiryHorizon ==
  (/\ status # "none"
   /\ history.draw < currentDraw
   /\ ~history.isClaimed
   /\ ~history.matchedNumbers.isNull
   /\ Cardinality(history.matchedNumbers.value) >= history.lotteryMinWinningTier)
  => /\ currentDraw - history.draw > 52 => status = "expired"
     /\ currentDraw - history.draw <= 52 => status = "unclaimed"
     /\ (history.draw = 10 /\ currentDraw = 65) => status = "expired"

C19_Witness ==
  /\ status = "unclaimed"
  /\ history.draw = 2
  /\ currentDraw = 54
  /\ ~history.isClaimed
  /\ history.matchedNumbers = Some({1, 2})
  /\ history.lotteryMinWinningTier = 2

\* C20: reading the reward of a ticket whose win tier is unknown or zero gives a
\* promise of zero and does not call the reward callback; for any other win tier
\* the callback is called exactly once, with the win tier, and the read gives
\* the promise the callback returned.
C20_RewardRead ==
  rewardRead.read =>
    LET known == ~history.matchedNumbers.isNull
        tier == Cardinality(history.matchedNumbers.value)
    IN  /\ (~known \/ tier = 0)
            => (rewardRead.callbackCalls = <<>> /\ rewardRead.promise = Ok(0))
        /\ (known /\ tier # 0)
            => /\ Len(rewardRead.callbackCalls) = 1
               /\ rewardRead.callbackCalls[1].tier = tier
               /\ rewardRead.promise = rewardRead.callbackCalls[1].returned

C20_Witness ==
  /\ rewardRead.read
  /\ history.matchedNumbers = Some({})
  /\ history.combination = Some({1, 2})
  /\ rewardRead.callbackCalls = <<>>
  /\ rewardRead.promise = Ok(0)

\* C21: isJackpotWinningTicket is true exactly when the win tier is known and
\* equals the number of members of the ticket's combination; it is false while
\* the win tier is unknown.
C21_JackpotIff ==
  jackpotRead # "none" =>
    LET known == ~history.matchedNumbers.isNull
    IN  /\ jackpotRead = "true"
            <=> (known /\ Cardinality(history.matchedNumbers.value)
                            = Cardinality(history.combination.value))
        /\ ~known => jackpotRead = "false"

C21_Witness ==
  /\ jackpotRead = "true"
  /\ history.combination = Some({1, 2})
  /\ history.matchedNumbers = Some({1, 2})
  /\ history.lotteryMinWinningTier = 1

\* C29: for a ticket of a finalized draw (draw < currentDraw, win tier known) of
\* a lottery with minWinningTier >= 1, a true isJackpotWinningTicket means that
\* getStatus is "claimed", "unclaimed" or "expired", never "unclaimable",
\* whatever the combination is, the empty one included.
C29_JackpotClaimable ==
  (/\ status # "none"
   /\ jackpotRead = "true"
   /\ history.draw < currentDraw
   /\ ~history.matchedNumbers.isNull
   /\ history.lotteryMinWinningTier >= 1)
  => status \in {"claimed", "unclaimed", "expired"}

\* C30: a ticket whose getStatus is "unclaimable" has a reward that is a promise
\* of zero, read without a call of the reward callback.
C30_UnclaimableNoCallback ==
  (status = "unclaimable" /\ rewardRead.read)
    => (rewardRead.callbackCalls = <<>> /\ rewardRead.promise = Ok(0))

(***************************************************************************)
(* Claims about the statuses of one ticket over time, checked under        *)
(* SpecSnapshot.                                                           *)
(***************************************************************************)
\* C26: over the snapshots of one ticket, with currentDraw never decreasing,
\* isClaimed never going back to false and the winning combination staying once
\* known, the status never goes back to "active" after another status,
\* "claimed" is followed only by "claimed", "expired" only by "expired" or
\* "claimed", "unclaimable" only by "unclaimable" or "claimed", and "unclaimed"
\* only by "unclaimed", "claimed" or "expired".
C26_StatusOrder ==
  [][/\ status \notin {"none", "active"} => status' # "active"
     /\ status = "claimed" => status' = "claimed"
     /\ status = "expired" => status' \in {"expired", "claimed"}
     /\ status = "unclaimable" => status' \in {"unclaimable", "claimed"}
     /\ status = "unclaimed" => status' \in {"unclaimed", "claimed", "expired"}]_vars

C26_Witness ==
  /\ status = "claimed"
  /\ ticketRecord.isClaimed
  /\ ticketRecord.draw = 1
  /\ ticketRecord.currentDraw = DRAWS_PER_YEAR + 2
  /\ ticketRecord.combination = Some({1, 2})
  /\ ticketRecord.winningCombination = Some({1, 2, 3})
  /\ ticketRecord.minWinningTier = 2

\* C27: once currentDraw is greater than a ticket's draw and the draw's winning
\* combination is known, getStatus on the history getTickets builds is never
\* "active", also when the ticket's record has no combination.
C27_FinalizedNotActive ==
  (/\ status # "none"
   /\ ticketRecord.draw < ticketRecord.currentDraw
   /\ ~ticketRecord.winningCombination.isNull)
  => status # "active"

(***************************************************************************)
(* Claims about the random ticket generators, checked under SpecGeneration.*)
(***************************************************************************)
Returned(op) == generation.op = op /\ generation.pc = "returned"

\* C22: Lottery.generateRandomTickets(count) returns, and what it returns is
\* count tickets that each have selectionSize members, all in 1 .. selectionMax,
\* for the lottery's own selectionSize and selectionMax.
C22_LotteryTicketsValid ==
  /\ [](Returned("Lottery.generateRandomTickets")
          => /\ Len(generation.tickets) = generation.count
             /\ \A i \in DOMAIN generation.tickets :
                  /\ Cardinality(generation.tickets[i]) = lottery.selectionSize
                  /\ generation.tickets[i] \subseteq 1 .. lottery.selectionMax)
  /\ (generation.op = "Lottery.generateRandomTickets")
       ~> Returned("Lottery.generateRandomTickets")

C22_Witness ==
  /\ Returned("Lottery.generateRandomTickets")
  /\ lottery.selectionSize = 2
  /\ lottery.selectionMax = 3
  /\ generation.count = 2
  /\ generation.tickets = <<{1, 3}, {2, 3}>>

\* C23: generateRandomTickets(count, selectionSize, selectionMax) with
\* 1 <= selectionSize <= selectionMax returns, and what it returns is count
\* tickets that isValidLotteryTicket accepts for (selectionSize, selectionMax).
C23_UtilityTicketsValid ==
  LET called == /\ generation.op = "generateRandomTickets"
                /\ 1 <= generation.selectionSize
                /\ generation.selectionSize <= generation.selectionMax
  IN  /\ []((called /\ generation.pc = "returned")
              => /\ Len(generation.tickets) = generation.count
                 /\ \A i \in DOMAIN generation.tickets :
                      isValidLotteryTicket(generation.tickets[i], generation.selectionSize,
                                           generation.selectionMax))
      /\ called ~> (called /\ generation.pc = "returned")

C2_RewardFormula ==
  LET c == rewardCall
      safeNetProfit == (c.netProfit * 67) \div 100
      excessPot == IF safeNetProfit - c.fixedJackpot > 0
                   THEN safeNetProfit - c.fixedJackpot ELSE 0
      divides == ~c.isJackpot /\ excessPot > 0 /\ c.ticketsSold > 0
      bonus == IF excessPot > 0 /\ c.ticketsSold > 0
               THEN (excessPot * 50) \div (c.ticketsSold * c.expectedPayout) ELSE 0
  IN  (/\ c.op = "calculateReward"
       /\ c.netProfit >= 0
       /\ divides => c.ticketsSold * c.expectedPayout > 0)
      => /\ c.result.ok
         /\ c.isJackpot => c.result.value = c.fixedReward + (excessPot * 50) \div 100
         /\ ~c.isJackpot => c.result.value = (c.fixedReward * (100 + bonus)) \div 100
         /\ (c.netProfit = 1000 /\ c.fixedJackpot = 100 /\ c.fixedReward = 200 /\ c.isJackpot)
            => c.result.value = 485

C2_Witness ==
  /\ rewardCall.op = "calculateReward"
  /\ rewardCall.netProfit = 1000
  /\ rewardCall.fixedJackpot = 100
  /\ rewardCall.fixedReward = 200
  /\ rewardCall.isJackpot
  /\ rewardCall.result = Ok(485)

\* C15: with fixedReward, fixedJackpot, ticketsSold, expectedPayout and isJackpot
\* held fixed, the reward does not decrease when netProfit grows: whenever the
\* reward for a netProfit2 >= netProfit is computed, the reward for netProfit is
\* computed too and is at most that one, in the jackpot and the non-jackpot branch.
C15_Monotone ==
  LET c == rewardCall
  IN  c.op = "calculateReward" =>
        \A netProfit2 \in NetProfits :
          netProfit2 >= c.netProfit =>
            LET reward2 == calculateReward(netProfit2, c.fixedReward, c.fixedJackpot,
                                           c.ticketsSold, c.isJackpot, c.expectedPayout)
            IN  reward2.ok => (c.result.ok /\ c.result.value <= reward2.value)

C15_Witness ==
  /\ rewardCall.op = "calculateReward"
  /\ ~rewardCall.isJackpot
  /\ rewardCall.netProfit = 3
  /\ rewardCall.fixedReward = 3
  /\ rewardCall.fixedJackpot = 0
  /\ rewardCall.ticketsSold = 1
  /\ rewardCall.expectedPayout = 1
  /\ rewardCall.result = Ok(6)
  /\ calculateReward(0, 3, 0, 1, FALSE, 1) = Ok(3)

\* C16: a jackpot reward is never below fixedReward, whatever netProfit is, also
\* when safeNetProfit is below fixedJackpot.
C16_JackpotFloor ==
  (rewardCall.op = "calculateReward" /\ rewardCall.isJackpot)
    => (rewardCall.result.ok /\ rewardCall.result.value >= rewardCall.fixedReward)

C16_Witness ==
  /\ rewardCall.op = "calculateReward"
  /\ rewardCall.isJackpot
  /\ rewardCall.netProfit = 1
  /\ rewardCall.fixedJackpot = 2
  /\ rewardCall.fixedReward = 3
  /\ rewardCall.result = Ok(3)

\* C17: a non-jackpot reward computed with ticketsSold = 0, or with an excess pot
\* of zero, is exactly fixedReward: the multiplier is 100 and fixedReward*100/100
\* loses nothing.
C17_NoBonus ==
  LET c == rewardCall
      excessIsZero == (c.netProfit * 67) \div 100 <= c.fixedJackpot
  IN  (/\ c.op = "calculateReward"
       /\ ~c.isJackpot
       /\ (c.ticketsSold = 0 \/ excessIsZero))
      => c.result = Ok(c.fixedReward)

C17_Witness ==
  /\ rewardCall.op = "calculateReward"
  /\ ~rewardCall.isJackpot
  /\ rewardCall.ticketsSold = 0
  /\ rewardCall.netProfit = 1000
  /\ rewardCall.fixedJackpot = 0
  /\ rewardCall.expectedPayout = 0
  /\ rewardCall.fixedReward = 3
  /\ rewardCall.result = Ok(3)

\* C18: for non-negative netProfit, fixedReward, fixedJackpot, ticketsSold and
\* expectedPayout, zero included, the reward calculation completes with a result,
\* and neither the excess pot nor the reward is negative.
C18_Total ==
  (rewardCall.op = "calculateReward" /\ rewardCall.netProfit >= 0)
    => /\ rewardCall.result.ok
       /\ rewardCall.result.value >= 0
       /\ calculateExcessPot(rewardCall.netProfit, rewardCall.fixedJackpot) >= 0

(***************************************************************************)
(* Claims about the tier mapping, checked under SpecTier.                  *)
(***************************************************************************)
\* C9: for an array of any length (empty, shorter than, equal to or longer than
\* selectionSize) convertArrayToWinTierMap returns the map that holds
\* tier = selectionSize - array.length + 1 + i -> transform(array[i]) exactly
\* for the indices i whose tier is >= minWinningTier, and no other key; an empty
\* array gives the empty map, and with minWinningTier >= 1 no tier below 1 is a key.
C9_TierMap ==
  tierCall.op = "convertArrayToWinTierMap" =>
    LET array == tierCall.array
        base == tierCall.selectionSize - Len(array) + 1
        kept == {i \in 0 .. Len(array) - 1 : base + i >= tierCall.minWinningTier}
    IN  /\ DOMAIN tierCall.result = {base + i : i \in kept}
        /\ \A i \in kept : tierCall.result[base + i] = mapFn(array[i + 1])
        /\ array = <<>> => tierCall.result = EmptyMap
        /\ tierCall.minWinningTier >= 1 => \A tier \in DOMAIN tierCall.result : tier >= 1

C9_Witness ==
  /\ tierCall.op = "convertArrayToWinTierMap"
  /\ tierCall.array = <<"30", "10", "20", "0">>
  /\ tierCall.selectionSize = 3
  /\ tierCall.minWinningTier = 2
  /\ DOMAIN tierCall.result = {2, 3}
  /\ tierCall.result[2] = 20
  /\ tierCall.result[3] = 0

(***************************************************************************)
(* Claims about buyTickets, checked under SpecBuy.                         *)
(***************************************************************************)
HasInvalidTicket(call) ==
  \E i \in DOMAIN call.ticketsForDraws :
    ~ValidCombination(call.ticketsForDraws[i].ticketNumbers,
                      lottery.selectionSize, lottery.selectionMax)

Kinds(call) == {call.events[i].kind : i \in DOMAIN call.events}

\* C10: a buyTickets call with a combination that is not valid for
\* (selectionSize, selectionMax) fails before any external call: it issues no
\* allowance read, no approve transaction and no purchase transaction.
C10_InvalidBeforeExternal ==
  \A c \in Calls :
    (calls[c].pc # "idle" /\ HasInvalidTicket(calls[c]))
    => Kinds(calls[c]) \cap {"allowance", "approve", "purchase"} = {}

\* C12: in one buyTickets call for n tickets, an approve transaction is submitted
\* exactly when the allowance read is below ticketPrice * n, and its amount is
\* ticketPrice * n; the purchase transaction is submitted only after that approve
\* is confirmed; at most one purchase is ever submitted, it carries all n
\* (drawId, packed ticket) pairs, and a call that got as far as the purchase has
\* submitted exactly one; if the approve step fails, no purchase is submitted.
C12_ApproveThenPurchase ==
  \A c \in Calls :
    LET call == calls[c]
        events == call.events
        n == Len(call.ticketsForDraws)
        approves == {i \in DOMAIN events : events[i].kind = "approve"}
        confirmed == {i \in DOMAIN events : events[i].kind = "approveConfirmed"}
        purchases == {i \in DOMAIN events : events[i].kind = "purchase"}
    IN  /\ ~call.allowanceRead.isNull
            => (approves # {} <=> call.allowanceRead.value < lottery.ticketPrice * n)
        /\ Cardinality(approves) <= 1
        /\ \A i \in approves : events[i].amount = lottery.ticketPrice * n
        /\ Cardinality(purchases) <= 1
        /\ call.pc \in {"purchase", "purchaseWait", "resolved"} => Cardinality(purchases) = 1
        /\ \A j \in purchases :
             /\ approves # {} => \E i \in confirmed : \E a \in approves : a < i /\ i < j
             /\ Len(events[j].drawIds) = n
             /\ Len(events[j].tickets) = n
             /\ \A k \in 1 .. n :
                  /\ events[j].drawIds[k] = call.ticketsForDraws[k].drawId
                  /\ SetBits(events[j].tickets[k])
                       = {number - 1 : number \in call.ticketsForDraws[k].ticketNumbers}
        /\ (call.pc = "rejected" /\ approves # {} /\ confirmed = {}) => purchases = {}

C12_Witness ==
  \E c \in Calls :
    /\ calls[c].pc = "resolved"
    /\ Len(calls[c].ticketsForDraws) = 2
    /\ calls[c].allowanceRead = Some(3)
    /\ [i \in DOMAIN calls[c].events |-> calls[c].events[i].kind]
         = <<"allowance", "onApproveStart", "approve", "approveConfirmed", "onApproveSuccess",
             "onTransactionStart", "purchase", "purchaseConfirmed", "onTransactionSuccess">>
    /\ calls[c].events[3].amount = 4
    /\ calls[c].events[7].tickets = <<3, 6>>

\* The progress hooks a call has fired, in order.
IsHook(event) ==
  event.kind \in {"onApproveStart", "onApproveSuccess", "onTransactionStart",
                  "onTransactionSuccess"}
Hooks(call) ==
  LET fired == SelectSeq(call.events, IsHook)
  IN  [i \in DOMAIN fired |-> fired[i].kind]
IsPrefix(a, b) == Len(a) <= Len(b) /\ \A i \in DOMAIN a : a[i] = b[i]
Before(call, first, second) ==
  \A j \in DOMAIN call.events :
    call.events[j].kind = second
      => \E i \in DOMAIN call.events : i < j /\ call.events[i].kind = first

\* C25: the hooks of one buyTickets call fire in order and at most once each:
\* onApproveStart and onApproveSuccess, only when the allowance read was below
\* ticketPrice * n, and onApproveSuccess only after the approve is confirmed;
\* then onTransactionStart; then onTransactionSuccess, only after the purchase
\* is confirmed. A call that resolves has fired them all; a call that rejects
\* fires no hook afterwards.
C25_HookOrder ==
  /\ [](\A c \in Calls :
          LET call == calls[c]
              below == call.allowanceRead.value
                         < lottery.ticketPrice * Len(call.ticketsForDraws)
              expected == (IF below THEN <<"onApproveStart", "onApproveSuccess">> ELSE <<>>)
                          \o <<"onTransactionStart", "onTransactionSuccess">>
          IN  /\ call.allowanceRead.isNull => Hooks(call) = <<>>
              /\ ~call.allowanceRead.isNull => IsPrefix(Hooks(call), expected)
              /\ Before(call, "approveConfirmed", "onApproveSuccess")
              /\ Before(call, "purchaseConfirmed", "onTransactionSuccess")
              /\ call.pc = "resolved" => Hooks(call) = expected
              /\ call.error # "none" => call.pc = "rejected")
  /\ [][\A c \in Calls : calls[c].pc = "rejected" => calls'[c] = calls[c]]_vars

C25_Witness ==
  \E c \in Calls :
    /\ calls[c].pc = "resolved"
    /\ calls[c].allowanceRead = Some(0)
    /\ Hooks(calls[c]) = <<"onApproveStart", "onApproveSuccess", "onTransactionStart",
                           "onTransactionSuccess">>

\* C28: when two buyTickets calls of one signer interleave at their awaits,
\* every purchase transaction is sent at a moment when the signer's allowance
\* is at least ticketPrice times the number of tickets of its call.
C28_PurchaseCovered ==
  [][\A c \in Calls :
       (calls[c].pc = "purchase" /\ calls'[c].pc = "purchaseWait")
         => allowance >= lottery.ticketPrice * Len(calls[c].ticketsForDraws)]_vars

(***************************************************************************)
(* Claims about the queries, checked under SpecQuery.                      *)
(***************************************************************************)
\* C11: a reward query (getWinAmount, getJackpotSize, getDrawRewardSize) for a win
\* tier outside minWinningTier .. selectionSize fails with the invalid-tier error
\* and has issued no request to the contract or the indexer.
C11_InvalidTierRejected ==
  (/\ query.op \in {"getWinAmount", "getJackpotSize", "getDrawRewardSize"}
   /\ (query.winTier < lottery.minWinningTier \/ query.winTier > lottery.selectionSize))
  => /\ query.pc = "rejected"
     /\ query.error = "Win tier must be between"
     /\ query.requests = <<>>

\* C13: when the indexer answers that the draw, the tickets or the player do not
\* exist (null, or an empty list), getWinAmount, getWinningTicket,
\* getNumberOfWinnersPerTier, getNumberOfPlayers, getSoldTickets, getTickets and
\* getPlayerStats resolve with their absent result, null or the empty list, and
\* do not reject.
C13_AbsentResult ==
  (/\ query.op \in {"getWinAmount", "getWinningTicket", "getNumberOfWinnersPerTier",
                     "getNumberOfPlayers", "getSoldTickets", "getTickets", "getPlayerStats"}
   /\ query.response \in {"noDraw", "noField", "null", "empty", "noPlayer"}
   /\ query.pc # "settled")
  => /\ query.pc = "resolved"
     /\ query.result \in {"null", "emptyList"}

(***************************************************************************)
(* Claims about every operation of the facade, checked under SpecFacade.   *)
(***************************************************************************)
\* C14: when a request to the contract, the token or the indexer fails inside an
\* operation of the facade, the operation rejects with that failure and never
\* resolves, and from the failure on it issues no further request: no retry and
\* no later step.
C14_FailurePropagates ==
  /\ [](/\ (query.response = "failure" /\ query.pc # "settled")
            => (query.pc = "rejected" /\ query.result = "error"
                /\ query.error = "collaborator")
        /\ \A c \in Calls :
             calls[c].error = "collaborator" => calls[c].pc = "rejected")
  /\ [][/\ query.response = "failure" => query'.requests = query.requests
        /\ \A c \in Calls :
             calls'[c].error = "collaborator" => calls'[c].events = calls[c].events]_vars

C14_Witness ==
  /\ query.op = "getDrawRewardSize"
  /\ query.response = "failure"
  /\ query.pc = "rejected"
  /\ query.error = "collaborator"
  /\ Len(query.requests) = 5

====
